---- MODULE Spec2Model ----
(***************************************************************************)
(* Session registry (SessionManager), packet protocol (PacketHandler),     *)
(* command routing and result correlation (CommandHandler) and the message *)
(* pipeline (WebSocketServer) of the lamela browser-extension gateway.     *)
(*                                                                         *)
(* Time is kept relative: a session's lastPing is held as its age          *)
(* (Date.now() - lastPing), a timer as the time left until it is due.      *)
(* One Tick is half of sessionTimeout.  Ages saturate at sessionTimeout+1, *)
(* which is all the code can tell apart (it only tests age > timeout).     *)
(***************************************************************************)
EXTENDS Integers, Sequences, FiniteSets, Bags, TLC

\* ------------------------------------------------------------- bounds
Codes == {<<"a">>, <<"7">>}       \* access codes agents register with (texts)
Channels == {"c1", "c2"}          \* WebSocket connections
UserAgentOf == [ws \in Channels |-> IF ws = "c1" THEN "ua1" ELSE "ua2"]  \* what the agent on ws reports
MaxTimers == 3                    \* Timeout objects alive at once
MaxTasks == 2                     \* async handlers suspended on persistence
MaxSweeps == 1                    \* interval bodies suspended at once
MaxCommands == 2                  \* command ids uuidv4 hands out
MaxBroadcasts == 1                \* broadcastCommand loops suspended at once

sessionTimeout == 2               \* in Ticks

VARIABLES
    activeSessions,   \* SessionManager.activeSessions: Map, in insertion order
    timers,           \* bag of armed liveness Timeouts: [accessCode, remaining, owned]
    sweepIn,          \* time left until the setInterval callback is due
    sweeps,           \* interval bodies awaiting markSessionOffline
    tasks,            \* bag of other handlers awaiting a persistence call
    db,               \* prisma.browsers: accessCode -> absent/online/offline
    listeners,        \* <<ws, accessCode>>: 'message'/'ping' listeners added by registerSession
    closed,           \* channels whose readyState is CLOSED
    pendingCommands,  \* CommandHandler.pendingCommands: commandId -> accessCode
    cmdTimers,        \* command ids whose expiry Timeout is armed
    nextCommandId,    \* the next fresh uuid
    outcomes,         \* history: commandId -> its terminal events so far, in order
    outbox,           \* what the last step sent: sequence of [ws, type, ...]
    log,              \* what CommandHandler wrote to the console in the last step
    removed,          \* history: registry entries the last step deleted
    broadcasts        \* broadcastCommand loops suspended at their await

smVars == <<activeSessions, timers, sweepIn, sweeps, tasks, db, listeners, closed>>
chVars == <<pendingCommands, cmdTimers, nextCommandId, outcomes>>
obsVars == <<outbox, log, removed>>
vars == <<activeSessions, timers, sweepIn, sweeps, tasks, db, listeners, closed,
          pendingCommands, cmdTimers, nextCommandId, outcomes, outbox, log, removed,
          broadcasts>>

\* ------------------------------------------------------------- helpers
Min(a, b) == IF a < b THEN a ELSE b
Max(a, b) == IF a > b THEN a ELSE b

Range(s) == {s[i] : i \in 1..Len(s)}

\* Map.has / Map.get / Map.set / Map.delete on the insertion-ordered table
MapHas(m, accessCode) == \E i \in 1..Len(m) : m[i].accessCode = accessCode

MapIndex(m, accessCode) ==
    CHOOSE i \in 1..Len(m) : m[i].accessCode = accessCode
                             /\ \A j \in 1..(i-1) : m[j].accessCode # accessCode

MapGet(m, accessCode) == m[MapIndex(m, accessCode)]

MapSet(m, session) ==
    IF MapHas(m, session.accessCode)
    THEN [m EXCEPT ![MapIndex(m, session.accessCode)] = session]
    ELSE Append(m, session)

MapDelete(m, accessCode) == SelectSeq(m, LAMBDA s : s.accessCode # accessCode)

\* Timeout objects.  A Timeout is kept without its identity: owned says that it
\* is the one the registered session's timeoutId refers to, so clearTimeout of
\* session.timeoutId removes the owned timer of that code, and does nothing when
\* that Timeout has fired already.  A Timeout no session refers to any more
\* (its entry was deleted without clearTimeout) stays armed, not owned.
Timer(accessCode, remaining, owned) ==
    [accessCode |-> accessCode, remaining |-> remaining, owned |-> owned]

BagOfSeq(s) ==
    [e \in Range(s) |-> Cardinality({i \in 1..Len(s) : s[i] = e})]

\* a bag as a sequence, in some order
RECURSIVE SeqOfBag(_)
SeqOfBag(b) ==
    IF BagToSet(b) = {} THEN <<>>
    ELSE LET e == CHOOSE x \in BagToSet(b) : TRUE
         IN <<e>> \o SeqOfBag(b (-) SetToBag({e}))

\* clearTimeout(session.timeoutId) for the session registered under accessCode
clearTimeout(ts, accessCode) ==
    BagOfSeq(SelectSeq(SeqOfBag(ts), LAMBDA t : ~(t.owned /\ t.accessCode = accessCode)))

\* setTimeout(() => markSessionOffline(accessCode), sessionTimeout), kept in timeoutId
setTimeout(ts, accessCode) == ts (+) SetToBag({Timer(accessCode, sessionTimeout, TRUE)})

\* the entry of accessCode leaves the table with its Timeout still armed
Disown(ts, accessCode) ==
    LET s == SeqOfBag(ts)
    IN BagOfSeq([i \in 1..Len(s) |->
                   IF s[i].accessCode = accessCode THEN [s[i] EXCEPT !.owned = FALSE]
                   ELSE s[i]])

\* A refresh of accessCode after an interval body read Date.now() makes
\* now - lastPing <= 0 for that body: the entry is no longer stale to it.
Unstale(sw, accessCode) ==
    [k \in 1..Len(sw) |-> [sw[k] EXCEPT !.stale = @ \ {accessCode}]]

\* An iterator over the Map keeps its place when an entry before it goes.
AfterDelete(sw, m, accessCode) ==
    IF MapHas(m, accessCode)
    THEN [k \in 1..Len(sw) |->
            IF MapIndex(m, accessCode) < sw[k].pos
            THEN [sw[k] EXCEPT !.pos = @ - 1] ELSE sw[k]]
    ELSE sw

\* ------------------------------------------------------------- SessionManager
\* The registry state the synchronous SessionManager methods work on.
SM == [activeSessions |-> activeSessions, timers |-> timers, sweeps |-> sweeps]

\* history kept in an entry: regs, the channels its code was registered on
\* since the code entered the table (the last two); evictions, how often
\* markSessionOffline was started for it since its last refresh; steady, that
\* every gap between its refreshes was shorter than sessionTimeout
Session(accessCode, userAgent, ws, regs) ==
    [accessCode |-> accessCode, userAgent |-> userAgent, lastPing |-> 0, ws |-> ws,
     regs |-> regs, evictions |-> 0, steady |-> TRUE]

Regs(m, accessCode, ws) ==
    IF MapHas(m, accessCode)
    THEN <<MapGet(m, accessCode).regs[Len(MapGet(m, accessCode).regs)], ws>>
    ELSE <<ws>>

\* Two wrong registries the properties must tell from the real one: a set that
\* appends beside the old entry, and one that keeps the old entry's channel.
registerSessionNoReplace(sm, accessCode, userAgent, ws) ==
    [activeSessions |->
        Append(sm.activeSessions,
               Session(accessCode, userAgent, ws, Regs(sm.activeSessions, accessCode, ws))),
     timers |-> setTimeout(clearTimeout(sm.timers, accessCode), accessCode),
     sweeps |-> Unstale(sm.sweeps, accessCode)]

registerSessionKeepChannel(sm, accessCode, userAgent, ws) ==
    LET m == sm.activeSessions
        session == IF MapHas(m, accessCode)
                   THEN Session(accessCode, userAgent, MapGet(m, accessCode).ws,
                                Regs(m, accessCode, ws))
                   ELSE Session(accessCode, userAgent, ws, <<ws>>)
    IN [activeSessions |-> MapSet(m, session),
        timers |-> setTimeout(clearTimeout(sm.timers, accessCode), accessCode),
        sweeps |-> Unstale(sm.sweeps, accessCode)]

registerSession(sm, accessCode, userAgent, ws) ==
    [activeSessions |->
        MapSet(sm.activeSessions,
               Session(accessCode, userAgent, ws, Regs(sm.activeSessions, accessCode, ws))),
     timers |-> setTimeout(clearTimeout(sm.timers, accessCode), accessCode),
     sweeps |-> Unstale(sm.sweeps, accessCode)]

\* what updateSessionPing returns: whether it found a session
updateSessionPingFound(sm, accessCode) == MapHas(sm.activeSessions, accessCode)

\* A wrong ping update, which arms a deadline even when there is no session.
updateSessionPingArming(sm, accessCode) ==
    [activeSessions |->
       IF MapHas(sm.activeSessions, accessCode)
       THEN MapSet(sm.activeSessions,
                   [MapGet(sm.activeSessions, accessCode) EXCEPT !.lastPing = 0, !.evictions = 0])
       ELSE sm.activeSessions,
     timers |-> setTimeout(clearTimeout(sm.timers, accessCode), accessCode),
     sweeps |-> Unstale(sm.sweeps, accessCode)]

updateSessionPing(sm, accessCode) ==
    LET m == sm.activeSessions IN
    IF ~MapHas(m, accessCode) THEN sm
    ELSE [activeSessions |->
            MapSet(m, [MapGet(m, accessCode) EXCEPT !.lastPing = 0, !.evictions = 0]),
          timers |-> setTimeout(clearTimeout(sm.timers, accessCode), accessCode),
          sweeps |-> Unstale(sm.sweeps, accessCode)]

\* activeSessions.delete(accessCode), as markSessionOffline does it: the
\* entry's Timeout is not cleared
deleteSession(sm, accessCode) ==
    [activeSessions |-> MapDelete(sm.activeSessions, accessCode),
     timers |-> Disown(sm.timers, accessCode),
     sweeps |-> AfterDelete(sm.sweeps, sm.activeSessions, accessCode)]

\* removeSession up to its await: clearTimeout and delete, when there is an entry
removeSession(sm, accessCode) ==
    deleteSession([sm EXCEPT !.timers = clearTimeout(@, accessCode)], accessCode)

\* history: the entries a delete of accessCode takes out of m, with who did it
Removal(m, accessCode, origin) ==
    {[accessCode |-> accessCode, origin |-> origin,
      steady |-> m[i].steady, ws |-> m[i].ws] :
        i \in {j \in 1..Len(m) : m[j].accessCode = accessCode}}

\* ------------------------------------------------------------- channels
\* ws.send / ws.ping: nothing goes out on a channel that is closed
Send(ws, msg) == IF ws \in closed THEN <<>> ELSE <<msg>>

NoTask == EmptyBag
Task(kind, phase, accessCode, ws) ==
    [kind |-> kind, phase |-> phase, accessCode |-> accessCode, ws |-> ws]
TaskAdd(b, t) == b (+) SetToBag({t})
TaskDone(b, t) == b (-) SetToBag({t})
Suspended == BagCardinality(tasks) + Len(sweeps)

\* ------------------------------------------------------------- persistence
\* prisma.browsers.update({where: {accessCode}, data: {isOnline: false}}):
\* throws when the store fails (ok = FALSE) or holds no such record
UpdateThrows(d, accessCode, ok) == ~ok \/ d[accessCode] = "absent"
MarkOffline(d, accessCode, ok) ==
    IF UpdateThrows(d, accessCode, ok) THEN d ELSE [d EXCEPT ![accessCode] = "offline"]
MarkOnline(d, accessCode, ok) ==
    IF UpdateThrows(d, accessCode, ok) THEN d ELSE [d EXCEPT ![accessCode] = "online"]
\* prisma.browsers.create: accessCode is @unique
CreateThrows(d, accessCode, ok) == ~ok \/ d[accessCode] # "absent"
CreateOnline(d, accessCode, ok) ==
    IF CreateThrows(d, accessCode, ok) THEN d ELSE [d EXCEPT ![accessCode] = "online"]

\* ------------------------------------------------------------- time
Tick ==
    /\ activeSessions' =
         [i \in 1..Len(activeSessions) |->
            [activeSessions[i] EXCEPT
               !.lastPing = Min(@ + 1, sessionTimeout + 1),
               !.steady = @ /\ (activeSessions[i].lastPing + 1 < sessionTimeout)]]
    /\ timers' = LET s == SeqOfBag(timers)
                  IN BagOfSeq([i \in 1..Len(s) |-> [s[i] EXCEPT !.remaining = Max(@ - 1, 0)]])
    /\ sweepIn' = Max(sweepIn - 1, 0)
    /\ outbox' = <<>> /\ log' = <<>> /\ removed' = {} /\ UNCHANGED broadcasts
    /\ UNCHANGED <<sweeps, tasks, db, listeners, closed>>
    /\ UNCHANGED chVars

\* ------------------------------------------------------------- PacketHandler
\* INIT packet: registerSession, then the handler awaits findUnique
handleInitPacket(ws, accessCode, userAgent) ==
    /\ ws \notin closed
    /\ Suspended < MaxTasks
    /\ UNCHANGED <<sweepIn, db, closed>>
    /\ UNCHANGED chVars
    /\ outbox' = <<>> /\ log' = <<>> /\ removed' = {} /\ UNCHANGED broadcasts
    /\ tasks' = TaskAdd(tasks, Task("init", "find", accessCode, ws))
    /\ listeners' = listeners \cup {<<ws, accessCode>>}
    /\ LET sm == registerSession(SM, accessCode, userAgent, ws) IN
         /\ BagCardinality(sm.timers) <= MaxTimers
         /\ activeSessions' = sm.activeSessions
         /\ timers' = sm.timers
         /\ sweeps' = sm.sweeps

\* findUnique returns: the handler issues update or create and awaits it
InitFound(t, ok) ==
    /\ t \in BagToSet(tasks) /\ t.kind = "init" /\ t.phase = "find"
    /\ IF ok
       THEN /\ tasks' = TaskAdd(TaskDone(tasks, t),
                          [t EXCEPT !.phase = IF db[t.accessCode] # "absent"
                                               THEN "update" ELSE "create"])
            /\ outbox' = <<>>
       ELSE /\ tasks' = TaskDone(tasks, t)
            /\ outbox' = Send(t.ws, [ws |-> t.ws, type |-> "ERROR",
                                     accessCode |-> t.accessCode, code |-> "INIT_ERROR"])
    /\ log' = <<>> /\ removed' = {} /\ UNCHANGED broadcasts
    /\ UNCHANGED <<activeSessions, timers, sweepIn, sweeps, db, listeners, closed>>
    /\ UNCHANGED chVars

\* update/create returns: success acknowledgement, or INIT_ERROR when it threw
InitWritten(t, ok) ==
    /\ t \in BagToSet(tasks) /\ t.kind = "init" /\ t.phase \in {"update", "create"}
    /\ LET threw == IF t.phase = "update" THEN UpdateThrows(db, t.accessCode, ok)
                    ELSE CreateThrows(db, t.accessCode, ok) IN
         /\ db' = IF t.phase = "update" THEN MarkOnline(db, t.accessCode, ok)
                  ELSE CreateOnline(db, t.accessCode, ok)
         /\ outbox' = IF threw
                      THEN Send(t.ws, [ws |-> t.ws, type |-> "ERROR",
                                       accessCode |-> t.accessCode, code |-> "INIT_ERROR"])
                      ELSE Send(t.ws, [ws |-> t.ws, type |-> "INIT",
                                       accessCode |-> t.accessCode, success |-> TRUE])
    /\ tasks' = TaskDone(tasks, t)
    /\ log' = <<>> /\ removed' = {} /\ UNCHANGED broadcasts
    /\ UNCHANGED <<activeSessions, timers, sweepIn, sweeps, listeners, closed>>
    /\ UNCHANGED chVars

\* EXIT packet: removeSession deletes at once, then awaits markSessionOffline
handleExitPacket(ws, accessCode) ==
    /\ ws \notin closed
    /\ Suspended < MaxTasks
    /\ LET sm == removeSession(SM, accessCode) IN
         /\ activeSessions' = sm.activeSessions
         /\ timers' = sm.timers
         /\ sweeps' = sm.sweeps
    /\ removed' = Removal(activeSessions, accessCode, "teardown") /\ UNCHANGED broadcasts
    /\ tasks' = TaskAdd(tasks, Task("exit", "offline", accessCode, ws))
    /\ outbox' = <<>>
    /\ log' = <<>>
    /\ UNCHANGED <<sweepIn, db, listeners, closed>>
    /\ UNCHANGED chVars

\* markSessionOffline of an EXIT packet returns: delete again, acknowledge
ExitDone(t, ok) ==
    /\ t \in BagToSet(tasks) /\ t.kind = "exit"
    /\ db' = MarkOffline(db, t.accessCode, ok)
    /\ LET sm == deleteSession(SM, t.accessCode) IN
         /\ activeSessions' = sm.activeSessions
         /\ timers' = sm.timers
         /\ sweeps' = sm.sweeps
    /\ removed' = Removal(activeSessions, t.accessCode, "teardown") /\ UNCHANGED broadcasts
    /\ tasks' = TaskDone(tasks, t)
    /\ outbox' = Send(t.ws, [ws |-> t.ws, type |-> "EXIT", success |-> TRUE])
    /\ log' = <<>>
    /\ UNCHANGED <<sweepIn, listeners, closed>>
    /\ UNCHANGED chVars

\* PING packet: touch the named session, answer PONG
handlePingPacket(ws, accessCode) ==
    /\ ws \notin closed
    /\ LET sm == updateSessionPing(SM, accessCode) IN
         /\ BagCardinality(sm.timers) <= MaxTimers
         /\ activeSessions' = sm.activeSessions
         /\ timers' = sm.timers
         /\ sweeps' = sm.sweeps
    /\ outbox' = Send(ws, [ws |-> ws, type |-> "PONG", accessCode |-> accessCode])
    /\ log' = <<>> /\ removed' = {} /\ UNCHANGED broadcasts
    /\ UNCHANGED <<sweepIn, tasks, db, listeners, closed>>
    /\ UNCHANGED chVars


\* ------------------------------------------------------------- liveness timers
\* history: markSessionOffline was started for the session now registered
Evicting(m, accessCode) ==
    [i \in 1..Len(m) |->
       IF m[i].accessCode = accessCode THEN [m[i] EXCEPT !.evictions = @ + 1] ELSE m[i]]

\* A liveness Timeout comes due: its callback starts markSessionOffline
DeadlineFire(t) ==
    /\ t \in BagToSet(timers) /\ t.remaining = 0
    /\ Suspended < MaxTasks
    /\ timers' = timers (-) SetToBag({t})
    /\ activeSessions' =
         IF t.owned THEN Evicting(activeSessions, t.accessCode) ELSE activeSessions
    /\ tasks' = TaskAdd(tasks, Task("deadline", "offline", t.accessCode, "-"))
    /\ outbox' = <<>>
    /\ log' = <<>>
    /\ removed' = {} /\ UNCHANGED broadcasts
    /\ UNCHANGED <<sweepIn, sweeps, db, listeners, closed>>
    /\ UNCHANGED chVars

\* markSessionOffline of a deadline returns: delete whatever is registered
DeadlineDone(t, ok) ==
    /\ t \in BagToSet(tasks) /\ t.kind = "deadline"
    /\ db' = MarkOffline(db, t.accessCode, ok)
    /\ LET sm == deleteSession(SM, t.accessCode) IN
         /\ activeSessions' = sm.activeSessions
         /\ timers' = sm.timers
         /\ sweeps' = sm.sweeps
    /\ removed' = Removal(activeSessions, t.accessCode, "deadline") /\ UNCHANGED broadcasts
    /\ tasks' = TaskDone(tasks, t)
    /\ outbox' = <<>>
    /\ log' = <<>>
    /\ UNCHANGED <<sweepIn, listeners, closed>>
    /\ UNCHANGED chVars

\* A wrong interval body, which pings every entry and evicts none.
RECURSIVE RunSweepNoEvict(_, _, _, _)
RunSweepNoEvict(sm, pos, stale, pings) ==
    LET m == sm.activeSessions IN
    IF pos > Len(m)
    THEN [sm |-> sm, pings |-> pings, suspended |-> FALSE, awaiting |-> <<>>, pos |-> pos]
    ELSE RunSweepNoEvict(sm, pos + 1, stale,
                  pings \o Send(m[pos].ws, [ws |-> m[pos].ws, type |-> "ping-frame"]))

\* The interval body from entry pos on, up to its next await or its end.
\* stale: the codes with now - lastPing > sessionTimeout for this body's now.
RECURSIVE RunSweep(_, _, _, _)
RunSweep(sm, pos, stale, pings) ==
    LET m == sm.activeSessions IN
    IF pos > Len(m)
    THEN [sm |-> sm, pings |-> pings, suspended |-> FALSE, awaiting |-> <<>>, pos |-> pos]
    ELSE IF m[pos].accessCode \in stale
    THEN [sm |-> [sm EXCEPT !.timers = clearTimeout(@, m[pos].accessCode),
                            !.activeSessions = Evicting(m, m[pos].accessCode)],
          pings |-> pings, suspended |-> TRUE, awaiting |-> m[pos].accessCode,
          pos |-> pos + 1]
    ELSE RunSweep(sm, pos + 1, stale,
                  pings \o Send(m[pos].ws, [ws |-> m[pos].ws, type |-> "ping-frame"]))

SweepRecord(r, stale) == [pos |-> r.pos, stale |-> stale, accessCode |-> r.awaiting]

\* The setInterval callback comes due
startPeriodicCheck ==
    /\ sweepIn = 0
    /\ LET stale == {activeSessions[i].accessCode :
                        i \in {j \in 1..Len(activeSessions) :
                                 activeSessions[j].lastPing > sessionTimeout}}
           r == RunSweep(SM, 1, stale, <<>>) IN
         /\ r.suspended => Suspended < MaxTasks /\ Len(sweeps) < MaxSweeps
         /\ activeSessions' = r.sm.activeSessions
         /\ timers' = r.sm.timers
         /\ sweeps' = IF ~r.suspended THEN sweeps
                      ELSE Append(sweeps, SweepRecord(r, stale))
         /\ outbox' = r.pings
    /\ sweepIn' = sessionTimeout
    /\ log' = <<>> /\ removed' = {} /\ UNCHANGED broadcasts
    /\ UNCHANGED <<tasks, db, listeners, closed>>
    /\ UNCHANGED chVars

RemoveAt(s, k) == [i \in 1..(Len(s) - 1) |-> IF i < k THEN s[i] ELSE s[i + 1]]

\* markSessionOffline of an interval body returns: delete, go on iterating
SweepResume(k, ok) ==
    /\ k \in 1..Len(sweeps)
    /\ db' = MarkOffline(db, sweeps[k].accessCode, ok)
    /\ LET sm1 == deleteSession(SM, sweeps[k].accessCode)
           me == sm1.sweeps[k]
           sm2 == [sm1 EXCEPT !.sweeps = RemoveAt(@, k)]
           r == RunSweep(sm2, me.pos, me.stale, <<>>) IN
         /\ activeSessions' = r.sm.activeSessions
         /\ timers' = r.sm.timers
         /\ sweeps' = IF ~r.suspended THEN r.sm.sweeps
                      ELSE Append(r.sm.sweeps, SweepRecord(r, me.stale))
         /\ outbox' = r.pings
    /\ log' = <<>>
    /\ removed' = Removal(activeSessions, sweeps[k].accessCode, "sweep") /\ UNCHANGED broadcasts
    /\ UNCHANGED <<sweepIn, tasks, listeners, closed>>
    /\ UNCHANGED chVars

\* ------------------------------------------------------------- listeners
\* updateSessionPing for every code in a set (one call per listener)
RECURSIVE PingAll(_, _)
PingAll(sm, codes) ==
    IF codes = {} THEN sm
    ELSE LET c == CHOOSE x \in codes : TRUE
         IN PingAll(updateSessionPing(sm, c), codes \ {c})

ListenersOn(ws) == {l[2] : l \in {x \in listeners : x[1] = ws}}

\* A protocol-level ping frame arrives: the 'ping' listeners registerSession added
ProtocolPing(ws) ==
    /\ ws \notin closed
    /\ ListenersOn(ws) # {}
    /\ LET sm == PingAll(SM, ListenersOn(ws)) IN
         /\ BagCardinality(sm.timers) <= MaxTimers
         /\ activeSessions' = sm.activeSessions
         /\ timers' = sm.timers
         /\ sweeps' = sm.sweeps
    /\ outbox' = <<>> /\ log' = <<>> /\ removed' = {} /\ UNCHANGED broadcasts
    /\ UNCHANGED <<sweepIn, tasks, db, listeners, closed>>
    /\ UNCHANGED chVars

\* The connection's 'close' event: logged, nothing else
Close(ws) ==
    /\ ws \notin closed
    /\ closed' = closed \cup {ws}
    /\ outbox' = <<>>
    /\ log' = <<>> /\ removed' = {} /\ UNCHANGED broadcasts
    /\ UNCHANGED <<activeSessions, timers, sweepIn, sweeps, tasks, db, listeners>>
    /\ UNCHANGED chVars


\* ------------------------------------------------------------- texts
\* A text is a sequence of one-character strings.
Sp == <<" ">>
Eq == <<"=">>
MainPrefix == <<"m", "a", "i", "n", ":">>
TxtExit == <<"e", "x", "i", "t">>
TxtList == <<"l", "i", "s", "t", "B", "r", "o", "w", "s", "e", "r", "s">>
TxtClick == <<"c", "l", "i", "c", "k">>
TxtBrowser == <<"b", "r", "o", "w", "s", "e", "r">>
TxtTrue == <<"t", "r", "u", "e">>
TxtFalse == <<"f", "a", "l", "s", "e">>
TxtPing == <<"p", "i", "n", "g">>
TxtSystem == <<"s", "y", "s", "t", "e", "m">>

\* String.prototype.startsWith
StartsWith(s, prefix) ==
    /\ Len(s) >= Len(prefix)
    /\ SubSeq(s, 1, Len(prefix)) = prefix

\* String.prototype.split(sep) for a one-character separator: every piece
\* between separators, the empty ones included
RECURSIVE SplitFrom(_, _, _, _)
SplitFrom(s, sep, i, piece) ==
    IF i > Len(s) THEN <<piece>>
    ELSE IF s[i] = sep THEN <<piece>> \o SplitFrom(s, sep, i + 1, <<>>)
    ELSE SplitFrom(s, sep, i + 1, Append(piece, s[i]))

Split(s, sep) == SplitFrom(s, sep, 1, <<>>)

\* JavaScript values of parameters: string, number or boolean
Str(x) == [t |-> "str", s |-> x, n |-> 0, b |-> FALSE]
Num(k) == [t |-> "num", s |-> <<>>, n |-> k, b |-> FALSE]
Bool(v) == [t |-> "bool", s |-> <<>>, n |-> 0, b |-> v]

Digit == [c \in {"0", "1", "2", "3", "4", "5", "6", "7", "8", "9"} |->
            CASE c = "0" -> 0 [] c = "1" -> 1 [] c = "2" -> 2 [] c = "3" -> 3
              [] c = "4" -> 4 [] c = "5" -> 5 [] c = "6" -> 6 [] c = "7" -> 7
              [] c = "8" -> 8 [] c = "9" -> 9]

\* !isNaN(Number(value)) on the texts of this model (letters, digits, '#'):
\* a non-empty text is a number exactly when it is all decimal digits
IsNumeric(x) == Len(x) > 0 /\ \A i \in 1..Len(x) : x[i] \in DOMAIN Digit

RECURSIVE NumberOf(_)
NumberOf(x) ==
    IF x = <<>> THEN 0
    ELSE 10 * NumberOf(SubSeq(x, 1, Len(x) - 1)) + Digit[x[Len(x)]]

\* Truthiness, as `if (targetBrowser)` and `key && value` test it
Truthy(v) ==
    CASE v.t = "str" -> v.s # <<>>
      [] v.t = "num" -> v.n # 0
      [] v.t = "bool" -> v.b

\* A wrong coercion, which keeps every value as the text it was.
CoerceKeepText(value) == Str(value)

\* the coercion of a parameter value
Coerce(value) ==
    IF value = TxtTrue THEN Bool(TRUE)
    ELSE IF value = TxtFalse THEN Bool(FALSE)
    ELSE IF IsNumeric(value) THEN Num(NumberOf(value))
    ELSE Str(value)

\* params after the loop over commandParts[i..]; params is a function key -> value
RECURSIVE ParseParams(_, _, _)
ParseParams(parts, i, params) ==
    IF i > Len(parts) THEN params
    ELSE LET kv == Split(parts[i], "=")
             key == kv[1]
             hasValue == Len(kv) >= 2 /\ kv[2] # <<>>
         IN IF key # <<>> /\ hasValue
            THEN ParseParams(parts, i + 1,
                   [k \in DOMAIN params \cup {key} |->
                      IF k = key THEN Coerce(kv[2]) ELSE params[k]])
            ELSE ParseParams(parts, i + 1, params)

NoParams == [k \in {} |-> Str(<<>>)]

\* delete params[key]
Without(params, key) == [k \in DOMAIN params \ {key} |-> params[k]]

\* Object.values(CommandType), the part of it the model's messages use
CommandType == {TxtClick, TxtExit}

\* the controller messages: main:click, main:exit, main:listBrowsers, an
\* unrecognized command, and main:click k=1 browser=<v> for every target text v
TxtBogus == <<"b", "o", "g", "u", "s">>
TargetTexts == Codes \cup {<<"0">>, TxtFalse}
MsgClick == MainPrefix \o TxtClick
MsgClickTo(v) == MainPrefix \o TxtClick \o Sp \o <<"k", "=", "1">> \o Sp \o TxtBrowser \o Eq \o v
MsgExit == MainPrefix \o TxtExit
MsgList == MainPrefix \o TxtList
MsgBogus == MainPrefix \o TxtBogus
ControllerMessages == {MsgClick, MsgExit, MsgList, MsgBogus} \cup {MsgClickTo(v) : v \in TargetTexts}

\* Parameter tokens to parse: key=value tokens with the value each must
\* become, and a token without '='.  An input is one or two tokens with
\* different keys.
TxtK == <<"k">>
TxtJ == <<"j">>
KeyedToken(key, text, value) ==
    [text |-> key \o Eq \o text, keyed |-> TRUE, key |-> key, value |-> value]
BareToken == [text |-> <<"z">>, keyed |-> FALSE, key |-> <<>>, value |-> Str(<<>>)]
TokensK ==
    {KeyedToken(TxtK, TxtTrue, Bool(TRUE)), KeyedToken(TxtK, TxtFalse, Bool(FALSE)),
     KeyedToken(TxtK, <<"7">>, Num(7)), KeyedToken(TxtK, <<"1", "2">>, Num(12)),
     KeyedToken(TxtK, <<"0">>, Num(0)), KeyedToken(TxtK, <<"x">>, Str(<<"x">>))}
TokensJ == {KeyedToken(TxtJ, <<"x">>, Str(<<"x">>)), KeyedToken(TxtJ, <<"7">>, Num(7))}
ParseInputs ==
    {<<t>> : t \in TokensK \cup TokensJ \cup {BareToken}}
      \cup {<<t, u>> : t \in TokensK, u \in TokensJ \cup {BareToken}}
      \cup {<<BareToken, u>> : u \in TokensK \cup TokensJ}
MsgOf(input) ==
    MainPrefix \o TxtClick \o Sp \o input[1].text
      \o (IF Len(input) = 2 THEN Sp \o input[2].text ELSE <<>>)
ParseMessages == {MsgOf(input) : input \in ParseInputs}

\* ------------------------------------------------------------- CommandHandler
\* The correlator state sendCommandToBrowser works on, with what the step
\* has sent and logged so far.
CH == [pendingCommands |-> pendingCommands, cmdTimers |-> cmdTimers,
       nextCommandId |-> nextCommandId, outbox |-> <<>>, log |-> <<>>]

\* sessionManager.getSession(key): Map.get compares keys by SameValueZero,
\* so only a string key finds a session
HasSession(m, key) == key.t = "str" /\ MapHas(m, key.s)

\* A wrong dispatch, which tracks the command without looking the session up.
sendCommandToBrowserAnyway(ch, m, key, command, params) ==
    LET commandId == ch.nextCommandId
    IN [ch EXCEPT
          !.pendingCommands = [id \in DOMAIN @ \cup {commandId} |->
                                 IF id = commandId THEN key.s ELSE @[id]],
          !.cmdTimers = @ \cup {commandId},
          !.nextCommandId = commandId + 1,
          !.log = Append(@, [level |-> "log", what |-> "sent", key |-> key])]

sendCommandToBrowser(ch, m, key, command, params) ==
    IF ~HasSession(m, key)
    THEN [ch EXCEPT !.log = Append(@, [level |-> "error", what |-> "not-found", key |-> key])]
    ELSE LET session == MapGet(m, key.s)
             commandId == ch.nextCommandId
         IN [ch EXCEPT
               !.pendingCommands = [id \in DOMAIN @ \cup {commandId} |->
                                      IF id = commandId THEN key.s ELSE @[id]],
               !.cmdTimers = @ \cup {commandId},
               !.nextCommandId = commandId + 1,
               !.outbox = @ \o Send(session.ws,
                             [ws |-> session.ws, type |-> "COMMAND", accessCode |-> key.s,
                              commandId |-> commandId, command |-> command,
                              params |-> params]),
               !.log = Append(@, [level |-> "log", what |-> "sent", key |-> key])]

\* for (const [accessCode, session] of sessions.entries()) sendCommandToBrowser(...)
RECURSIVE SendToAll(_, _, _, _, _)
SendToAll(ch, m, i, command, params) ==
    IF i > Len(m) THEN ch
    ELSE SendToAll(sendCommandToBrowser(ch, m, Str(m[i].accessCode), command, params),
                   m, i + 1, command, params)

\* A wrong fan-out, which stops after the first session.
broadcastCommandFirstOnly(ch, m, command, params) ==
    IF Len(m) = 0 THEN ch
    ELSE sendCommandToBrowser(ch, m, Str(m[1].accessCode), command, params)

broadcastCommand(ch, m, command, params) == SendToAll(ch, m, 1, command, params)

broadcastExitCommand(ch, m) == SendToAll(ch, m, 1, TxtExit, NoParams)

\* getAllSessions returns this.activeSessions, the Map itself: live says that
\* the value is the registry's own table, entries is what a copy would hold
getAllSessions(m) == [live |-> TRUE, entries |-> <<>>]
\* sessions.entries(): what an iteration of a value of getAllSessions goes through
Entries(sessions, m) == IF sessions.live THEN m ELSE sessions.entries

\* broadcastCommand, step by step.  The loop awaits each sendCommandToBrowser
\* and so gives way after every entry, its iterator over sessions kept.
\* (broadcastCommand above is the loop run to its end with no other handler
\* in between.)  issued is history: the access codes registered at the call.
\* main:click arrives on ws with a session registered: getAllSessions, the
\* command for the first entry, then the await
broadcastBegin(ws) ==
    /\ ws \notin closed
    /\ Len(activeSessions) > 0
    /\ Len(broadcasts) < MaxBroadcasts
    /\ UNCHANGED smVars
    /\ UNCHANGED outcomes
    /\ removed' = {}
    /\ LET ch == sendCommandToBrowser(CH, activeSessions, Str(activeSessions[1].accessCode),
                                      TxtClick, NoParams) IN
         /\ ch.nextCommandId <= MaxCommands + 1
         /\ pendingCommands' = ch.pendingCommands
         /\ cmdTimers' = ch.cmdTimers
         /\ nextCommandId' = ch.nextCommandId
         /\ outbox' = ch.outbox
         /\ log' = ch.log
    /\ broadcasts' = Append(broadcasts,
                            [sessions |-> getAllSessions(activeSessions), visited |-> 1,
                             issued |-> {activeSessions[i].accessCode :
                                           i \in 1..Len(activeSessions)}])

\* the await of a broadcastCommand loop returns: the command for the next
\* entry of sessions and the next await, or the end of the loop
broadcastResume(k) ==
    /\ k \in 1..Len(broadcasts)
    /\ UNCHANGED smVars
    /\ UNCHANGED outcomes
    /\ removed' = {}
    /\ LET entries == Entries(broadcasts[k].sessions, activeSessions)
           visited == broadcasts[k].visited IN
         IF visited < Len(entries)
         THEN LET ch == sendCommandToBrowser(CH, activeSessions,
                                             Str(entries[visited + 1].accessCode),
                                             TxtClick, NoParams) IN
                /\ ch.nextCommandId <= MaxCommands + 1
                /\ pendingCommands' = ch.pendingCommands
                /\ cmdTimers' = ch.cmdTimers
                /\ nextCommandId' = ch.nextCommandId
                /\ outbox' = ch.outbox
                /\ log' = ch.log
                /\ broadcasts' = [broadcasts EXCEPT ![k].visited = @ + 1]
         ELSE /\ broadcasts' = RemoveAt(broadcasts, k)
              /\ outbox' = <<>> /\ log' = <<>>
              /\ UNCHANGED <<pendingCommands, cmdTimers, nextCommandId>>

\* sendBrowserList: the list goes to getMainAppWebSocket(), the first session's channel
sendBrowserList(ch, m) ==
    IF Len(m) = 0 THEN ch
    ELSE [ch EXCEPT !.outbox = @ \o Send(m[1].ws,
            [ws |-> m[1].ws, type |-> "BROWSER_LIST",
             browsers |-> [i \in 1..Len(m) |->
                             [accessCode |-> m[i].accessCode, userAgent |-> m[i].userAgent,
                              lastPing |-> m[i].lastPing]]])]

\* what processMainAppCommand reads out of a message that starts with main:
ParseCommand(message) ==
    LET commandString == SubSeq(message, 6, Len(message))
        commandParts == Split(commandString, " ")
    IN [commandString |-> commandString,
        command |-> commandParts[1],
        params |-> ParseParams(commandParts, 2, NoParams)]

\* the parse of every controller message, computed once
Parses == [message \in ControllerMessages \cup ParseMessages |-> ParseCommand(message)]

\* A wrong command parser, which dispatches a command whatever its name.
processMainAppCommandAnyName(ch, m, message) ==
    [handled |-> TRUE,
     ch |-> broadcastCommand(ch, m, Parses[message].command, Parses[message].params)]

\* processMainAppCommand on a message that starts with main:
\* [handled: what it returns, ch: the correlator and outputs after it]
processMainAppCommand(ch, m, message) ==
    LET commandString == Parses[message].commandString
        command == Parses[message].command
        parsed == Parses[message].params
        hasTarget == TxtBrowser \in DOMAIN parsed /\ Truthy(parsed[TxtBrowser])
    IN IF commandString = TxtExit
       THEN [handled |-> TRUE, ch |-> broadcastExitCommand(ch, m)]
       ELSE IF commandString = TxtList
       THEN [handled |-> TRUE, ch |-> sendBrowserList(ch, m)]
       ELSE IF command \notin CommandType
       THEN [handled |-> FALSE,
             ch |-> [ch EXCEPT !.log = Append(@, [level |-> "error", what |-> "unknown-command",
                                                   key |-> Str(command)])]]
       ELSE IF hasTarget
       THEN [handled |-> TRUE,
             ch |-> sendCommandToBrowser(ch, m, parsed[TxtBrowser], command,
                                         Without(parsed, TxtBrowser))]
       ELSE [handled |-> TRUE, ch |-> broadcastCommand(ch, m, command, parsed)]

\* A main: message arrives on ws.  When processMainAppCommand returns false the
\* message falls through: it is no JSON, so the sender gets INVALID_FORMAT.
MainAppMessage(ws, message) ==
    /\ ws \notin closed
    /\ StartsWith(message, MainPrefix)
    /\ UNCHANGED smVars
    /\ UNCHANGED outcomes
    /\ removed' = {} /\ UNCHANGED broadcasts
    /\ LET r == processMainAppCommand(CH, activeSessions, message) IN
         /\ r.ch.nextCommandId <= MaxCommands + 1
         /\ pendingCommands' = r.ch.pendingCommands
         /\ cmdTimers' = r.ch.cmdTimers
         /\ nextCommandId' = r.ch.nextCommandId
         /\ outbox' = IF r.handled THEN r.ch.outbox
                      ELSE r.ch.outbox \o Send(ws, [ws |-> ws, type |-> "ERROR",
                                 accessCode |-> TxtSystem, code |-> "INVALID_FORMAT"])
         /\ log' = r.ch.log

\* Two wrong result handlers: one that leaves the pending entry in place, one
\* that takes any command id for a pending one.
handleCommandResultKeep(ws, commandId, accessCode, success) ==
    /\ ws \notin closed
    /\ IF commandId \notin DOMAIN pendingCommands
       THEN /\ log' = <<[level |-> "warn", what |-> "unknown-result", commandId |-> commandId]>>
            /\ UNCHANGED <<pendingCommands, outcomes>>
       ELSE /\ UNCHANGED pendingCommands
            /\ outcomes' = [outcomes EXCEPT ![commandId] = Append(@, "resolved")]
            /\ log' = <<[level |-> IF success THEN "log" ELSE "error",
                         what |-> "result", commandId |-> commandId]>>
    /\ outbox' = <<>> /\ removed' = {} /\ UNCHANGED broadcasts
    /\ UNCHANGED <<cmdTimers, nextCommandId>>
    /\ UNCHANGED smVars

handleCommandResultAnyId(ws, commandId, accessCode, success) ==
    /\ ws \notin closed
    /\ pendingCommands' = [id \in DOMAIN pendingCommands \ {commandId} |->
                             pendingCommands[id]]
    /\ outcomes' = [outcomes EXCEPT ![commandId] = Append(@, "resolved")]
    /\ log' = <<[level |-> IF success THEN "log" ELSE "error",
                 what |-> "result", commandId |-> commandId]>>
    /\ outbox' = <<>> /\ removed' = {} /\ UNCHANGED broadcasts
    /\ UNCHANGED <<cmdTimers, nextCommandId>>
    /\ UNCHANGED smVars

\* A COMMAND_RESULT packet arrives on ws
handleCommandResult(ws, commandId, accessCode, success) ==
    /\ ws \notin closed
    /\ IF commandId \notin DOMAIN pendingCommands
       THEN /\ log' = <<[level |-> "warn", what |-> "unknown-result", commandId |-> commandId]>>
            /\ UNCHANGED <<pendingCommands, outcomes>>
       ELSE /\ pendingCommands' = [id \in DOMAIN pendingCommands \ {commandId} |->
                                     pendingCommands[id]]
            /\ outcomes' = [outcomes EXCEPT ![commandId] = Append(@, "resolved")]
            /\ log' = <<[level |-> IF success THEN "log" ELSE "error",
                         what |-> "result", commandId |-> commandId]>>
    /\ outbox' = <<>> /\ removed' = {} /\ UNCHANGED broadcasts
    /\ UNCHANGED <<cmdTimers, nextCommandId>>
    /\ UNCHANGED smVars

\* A command's expiry Timeout comes due (commandTimeoutMs after it was armed;
\* a result may arrive before or after, so the delay itself is not kept)
CommandTimeout(commandId) ==
    /\ commandId \in cmdTimers
    /\ cmdTimers' = cmdTimers \ {commandId}
    /\ IF commandId \in DOMAIN pendingCommands
       THEN /\ pendingCommands' = [id \in DOMAIN pendingCommands \ {commandId} |->
                                     pendingCommands[id]]
            /\ outcomes' = [outcomes EXCEPT ![commandId] = Append(@, "timeout")]
            /\ log' = <<[level |-> "error", what |-> "timed-out", commandId |-> commandId]>>
       ELSE /\ log' = <<>>
            /\ UNCHANGED <<pendingCommands, outcomes>>
    /\ outbox' = <<>> /\ removed' = {} /\ UNCHANGED broadcasts
    /\ UNCHANGED nextCommandId
    /\ UNCHANGED smVars

\* A raw text 'ping' arrives on ws: the server's handler answers pong.  The
\* listeners registerSession added compare the frame with 'ping' by ===, which
\* holds only where the ws library hands text frames over as strings.
RawPing(ws, asString) ==
    /\ ws \notin closed
    /\ LET heard == IF asString THEN ListenersOn(ws) ELSE {}
           sm == PingAll(SM, heard) IN
         /\ BagCardinality(sm.timers) <= MaxTimers
         /\ activeSessions' = sm.activeSessions
         /\ timers' = sm.timers
         /\ sweeps' = sm.sweeps
         /\ outbox' = Send(ws, [ws |-> ws, type |-> "pong"])
                      \o [i \in 1..Cardinality(heard) |-> [ws |-> ws, type |-> "pong"]]
    /\ log' = <<>> /\ removed' = {} /\ UNCHANGED broadcasts
    /\ UNCHANGED <<sweepIn, tasks, db, listeners, closed>>
    /\ UNCHANGED chVars

\* ------------------------------------------------------------- malformed input
TxtUnknown == <<"u", "n", "k", "n", "o", "w", "n">>

\* Messages the handlers cannot read: a text that is no JSON, the JSON values
\* null and a number, objects whose data field is missing or null, and
\* objects of a type no handler knows.  accessCode <<>> is no access code.
NoData(kind) == [kind |-> kind, accessCode |-> <<>>]
DataOf(accessCode) == [kind |-> "object", accessCode |-> accessCode]
MalformedPackets ==
    {[shape |-> s, type |-> "-", data |-> NoData("missing")] : s \in {"text", "null", "number"}}
      \cup {[shape |-> "object", type |-> ty, data |-> NoData(k)] :
               ty \in {"INIT", "EXIT", "PING", "COMMAND_RESULT", "OTHER"},
               k \in {"missing", "null"}}
      \cup {[shape |-> "object", type |-> "OTHER", data |-> DataOf(c)] : c \in Codes \cup {<<>>}}

\* reading packet.data.accessCode throws a TypeError unless data is an object
DataReadThrows(packet) == packet.shape # "object" \/ packet.data.kind # "object"
\* packet.data.accessCode || 'unknown'
AccessCodeOrUnknown(packet) ==
    IF packet.data.accessCode = <<>> THEN TxtUnknown ELSE packet.data.accessCode

\* sendErrorPacket
sendErrorPacket(ws, accessCode, code) ==
    Send(ws, [ws |-> ws, type |-> "ERROR", accessCode |-> accessCode, code |-> code])

\* handlePacket on a packet of MalformedPackets: [thrown: whether it throws,
\* sent: what it sent].  The try block throws on reading packet.type of null
\* and when a handler destructures a data field that is no object; its catch
\* block reads packet.data.accessCode itself and so may throw again.
handlePacket(ws, packet) ==
    LET tryThrows ==
          IF packet.shape = "null" THEN TRUE
          ELSE IF packet.type \in {"INIT", "EXIT", "PING"} THEN DataReadThrows(packet)
          ELSE DataReadThrows(packet)
    IN IF ~tryThrows
       THEN [thrown |-> FALSE,
             sent |-> sendErrorPacket(ws, AccessCodeOrUnknown(packet), "UNKNOWN_PACKET_TYPE")]
       ELSE IF DataReadThrows(packet)
       THEN [thrown |-> TRUE, sent |-> <<>>]
       ELSE [thrown |-> FALSE,
             sent |-> sendErrorPacket(ws, AccessCodeOrUnknown(packet), "INTERNAL_ERROR")]

\* A message of MalformedPackets arrives on ws: JSON.parse or handlePacket
\* throws into the catch of the message handler, or handlePacket answers
BadPacket(ws, packet) ==
    /\ ws \notin closed
    /\ UNCHANGED smVars
    /\ UNCHANGED chVars
    /\ LET r == handlePacket(ws, packet) IN
         outbox' = IF packet.shape = "text" \/ r.thrown
                   THEN sendErrorPacket(ws, TxtSystem, "INVALID_FORMAT")
                   ELSE r.sent
    /\ log' = <<>> /\ removed' = {} /\ UNCHANGED broadcasts

\* ------------------------------------------------------------- specification
Init ==
    /\ activeSessions = <<>>
    /\ timers = EmptyBag
    /\ sweepIn = sessionTimeout
    /\ sweeps = <<>>
    /\ tasks = NoTask
    /\ db = [c \in Codes |-> "absent"]
    /\ listeners = {}
    /\ closed = {}
    /\ pendingCommands = <<>>
    /\ cmdTimers = {}
    /\ nextCommandId = 1
    /\ outcomes = [id \in 1..MaxCommands |-> <<>>]
    /\ outbox = <<>>
    /\ log = <<>>
    /\ removed = {}
    /\ broadcasts = <<>>

\* The session side: one agent's registrations, liveness, teardown, the
\* deadline and the sweep, with persistence calls that may fail
Agent == {<<"a">>}

Next ==
    \/ Tick
    \/ \E ws \in Channels, c \in Agent : handleInitPacket(ws, c, UserAgentOf[ws])
    \/ \E t \in BagToSet(tasks), ok \in BOOLEAN : InitFound(t, ok)
    \/ \E t \in BagToSet(tasks), ok \in BOOLEAN : InitWritten(t, ok)
    \/ \E ws \in Channels, c \in Agent : handleExitPacket(ws, c)
    \/ \E t \in BagToSet(tasks), ok \in BOOLEAN : ExitDone(t, ok)
    \/ \E ws \in Channels, c \in Agent : handlePingPacket(ws, c)
    \/ \E t \in BagToSet(timers) : DeadlineFire(t)
    \/ \E t \in BagToSet(tasks), ok \in BOOLEAN : DeadlineDone(t, ok)
    \/ startPeriodicCheck
    \/ \E k \in 1..Len(sweeps), ok \in BOOLEAN : SweepResume(k, ok)

\* The command side, over a registry that registrations and teardowns change.
\* Routing reads the registry alone, so here the store answers a handler's
\* persistence call before the next message is taken, and never fails.
Quiet == Suspended = 0

RouterNext ==
    \/ Quiet /\ \E ws \in Channels, c \in Codes : handleInitPacket(ws, c, UserAgentOf[ws])
    \/ \E t \in BagToSet(tasks) : InitFound(t, TRUE)
    \/ \E t \in BagToSet(tasks) : InitWritten(t, TRUE)
    \/ Quiet /\ \E ws \in Channels, c \in Codes : handleExitPacket(ws, c)
    \/ \E t \in BagToSet(tasks) : ExitDone(t, TRUE)
    \/ Quiet /\ \E ws \in Channels, msg \in ControllerMessages : MainAppMessage(ws, msg)
    \/ Quiet /\ \E ws \in Channels, id \in 1..MaxCommands, c \in Agent, success \in BOOLEAN :
                   handleCommandResult(ws, id, c, success)
    \/ \E id \in 1..MaxCommands : CommandTimeout(id)

Spec == Init /\ [][Next]_vars

RouterSpec == Init /\ [][RouterNext]_vars

\* setTimeout callbacks run: an armed expiry Timeout does come due
RouterLiveSpec == RouterSpec /\ \A id \in 1..MaxCommands : WF_vars(CommandTimeout(id))

\* One agent that registers, pings and then may fall silent.  Time passes,
\* the setInterval callback runs when it is due, and the markSessionOffline
\* an interval body awaits returns (normally or by throwing).  A due liveness
\* Timeout may run its callback or never run it, and its markSessionOffline
\* need not return.  Handlers start one at a time here, so the bound on
\* suspended handlers never holds the interval callback back.
LiveNext ==
    \/ Tick
    \/ Quiet /\ \E c \in Agent : handleInitPacket("c1", c, UserAgentOf["c1"])
    \/ \E t \in BagToSet(tasks), ok \in BOOLEAN : InitFound(t, ok)
    \/ \E t \in BagToSet(tasks), ok \in BOOLEAN : InitWritten(t, ok)
    \/ \E c \in Agent : handlePingPacket("c1", c)
    \/ Quiet /\ \E t \in BagToSet(timers) : DeadlineFire(t)
    \/ \E t \in BagToSet(tasks), ok \in BOOLEAN : DeadlineDone(t, ok)
    \/ startPeriodicCheck
    \/ \E k \in 1..Len(sweeps), ok \in BOOLEAN : SweepResume(k, ok)

LiveSpec ==
    /\ Init /\ [][LiveNext]_vars
    /\ WF_vars(Tick)
    /\ WF_vars(startPeriodicCheck)
    /\ WF_vars(\E k \in 1..Len(sweeps), ok \in BOOLEAN : SweepResume(k, ok))

\* The store as a mirror of the registry: one agent's registrations and
\* teardowns, the deadline and the sweep, with a store that answers every call.
MirrorNext ==
    \/ Tick
    \/ \E ws \in Channels, c \in Agent : handleInitPacket(ws, c, UserAgentOf[ws])
    \/ \E t \in BagToSet(tasks) : InitFound(t, TRUE)
    \/ \E t \in BagToSet(tasks) : InitWritten(t, TRUE)
    \/ \E ws \in Channels, c \in Agent : handleExitPacket(ws, c)
    \/ \E t \in BagToSet(tasks) : ExitDone(t, TRUE)
    \/ \E t \in BagToSet(timers) : DeadlineFire(t)
    \/ \E t \in BagToSet(tasks) : DeadlineDone(t, TRUE)
    \/ startPeriodicCheck
    \/ \E k \in 1..Len(sweeps) : SweepResume(k, TRUE)

MirrorSpec == Init /\ [][MirrorNext]_vars

\* The broadcast loop among registrations.  The loop's await is on a promise
\* that is settled already, so the loop goes on before any timer or store
\* callback runs; what can come between two of its steps is the handler of a
\* message that arrived with the controller's in one read of the socket.  No
\* entry leaves the registry here, so the number of entries visited is the
\* place of the loop's iterator.
LoopsDone == broadcasts = <<>>

ViewNext ==
    \/ Quiet /\ \E ws \in Channels, c \in Codes : handleInitPacket(ws, c, UserAgentOf[ws])
    \/ LoopsDone /\ \E t \in BagToSet(tasks) : InitFound(t, TRUE)
    \/ LoopsDone /\ \E t \in BagToSet(tasks) : InitWritten(t, TRUE)
    \/ Quiet /\ \E ws \in Channels : broadcastBegin(ws)
    \/ \E k \in 1..Len(broadcasts) : broadcastResume(k)
    \/ LoopsDone /\ \E id \in 1..MaxCommands : CommandTimeout(id)

ViewSpec == Init /\ [][ViewNext]_vars

\* The message pipeline: one agent registers on either channel, the
\* controller broadcasts, malformed messages and pings arrive, channels close.
PipelineNext ==
    \/ Quiet /\ \E ws \in Channels, c \in Agent : handleInitPacket(ws, c, UserAgentOf[ws])
    \/ \E t \in BagToSet(tasks) : InitFound(t, TRUE)
    \/ \E t \in BagToSet(tasks) : InitWritten(t, TRUE)
    \/ Quiet /\ \E ws \in Channels : MainAppMessage(ws, MsgClick)
    \/ \E id \in 1..MaxCommands : CommandTimeout(id)
    \/ Quiet /\ \E ws \in Channels, packet \in MalformedPackets : BadPacket(ws, packet)
    \/ Quiet /\ \E ws \in Channels : ProtocolPing(ws)
    \/ Quiet /\ \E ws \in Channels, asString \in BOOLEAN : RawPing(ws, asString)
    \/ Quiet /\ \E ws \in Channels : Close(ws)

PipelineSpec == Init /\ [][PipelineNext]_vars

\* The parameter grammar: one agent registers, then the controller sends
\* click commands carrying the tokens of ParseInputs.
ParseNext ==
    \/ Quiet /\ \E c \in Agent : handleInitPacket("c1", c, UserAgentOf["c1"])
    \/ \E t \in BagToSet(tasks) : InitFound(t, TRUE)
    \/ \E t \in BagToSet(tasks) : InitWritten(t, TRUE)
    \/ Quiet /\ \E ws \in Channels, input \in ParseInputs : MainAppMessage(ws, MsgOf(input))
    \/ \E id \in 1..MaxCommands : CommandTimeout(id)

ParseSpec == Init /\ [][ParseNext]_vars

\* ------------------------------------------------------------- properties
Commands(box) == {i \in 1..Len(box) : box[i].type = "COMMAND"}

\* C1: the registry never holds two entries with one access code, and every
\* registerSession leaves exactly one entry for its code, holding the new
\* channel, the new userAgent, a fresh lastPing and one freshly armed Timeout;
\* the table grows only when the code was absent.
C1_OneSessionPerCode ==
    /\ [](\A i, j \in 1..Len(activeSessions) :
            activeSessions[i].accessCode = activeSessions[j].accessCode => i = j)
    /\ [][\A ws \in Channels, c \in Codes :
            handleInitPacket(ws, c, UserAgentOf[ws]) =>
              /\ MapHas(activeSessions', c)
              /\ MapGet(activeSessions', c).ws = ws
              /\ MapGet(activeSessions', c).userAgent = UserAgentOf[ws]
              /\ MapGet(activeSessions', c).lastPing = 0
              /\ Len(activeSessions') =
                   IF MapHas(activeSessions, c) THEN Len(activeSessions)
                   ELSE Len(activeSessions) + 1
              /\ \A t \in BagToSet(timers') :
                   t.owned /\ t.accessCode = c =>
                     t.remaining = sessionTimeout /\ CopiesIn(t, timers') = 1
              /\ \E t \in BagToSet(timers') : t.owned /\ t.accessCode = c]_vars

\* C1 witness: a code registered on c1, aged, and just registered again on c2
C1_Reregistered ==
    \E c \in Codes :
      /\ MapHas(activeSessions, c)
      /\ MapGet(activeSessions, c).regs = <<"c1", "c2">>
      /\ MapGet(activeSessions, c).ws = "c2"
      /\ MapGet(activeSessions, c).lastPing = 0
      /\ Task("init", "find", c, "c2") \in BagToSet(tasks)
      /\ sweepIn < sessionTimeout

\* C2: a command id has no terminal event while it is pending and exactly one
\* (resolve or timeout, never both) once it is issued and no longer pending;
\* with expiry Timeouts that fire, every pending entry is eventually removed.
C2_ExactlyOneTerminalEvent ==
    /\ [](\A id \in 1..MaxCommands :
            /\ id \in DOMAIN pendingCommands => outcomes[id] = <<>> /\ id < nextCommandId
            /\ id \notin DOMAIN pendingCommands /\ id < nextCommandId => Len(outcomes[id]) = 1
            /\ id >= nextCommandId => outcomes[id] = <<>>)
    /\ \A id \in 1..MaxCommands :
         (id \in DOMAIN pendingCommands) ~> (id \notin DOMAIN pendingCommands)

\* C2 witness: one command resolved by its result, another removed by its expiry
C2_ResolvedAndTimedOut ==
    /\ outcomes[1] = <<"resolved">>
    /\ outcomes[2] = <<"timeout">>
    /\ DOMAIN pendingCommands = {}

\* C3: no command id is resolved twice, and a result whose id is not pending
\* (answered already, expired, or never issued) leaves the pending table and
\* the outcomes alone, logs no result and sends nothing.
C3_ResultAcceptedOnce ==
    /\ [](\A id \in 1..MaxCommands :
            Len(SelectSeq(outcomes[id], LAMBDA e : e = "resolved")) <= 1)
    /\ [][\A ws \in Channels, id \in 1..MaxCommands, c \in Codes, success \in BOOLEAN :
            id \notin DOMAIN pendingCommands /\ handleCommandResult(ws, id, c, success) =>
              /\ UNCHANGED <<pendingCommands, outcomes>>
              /\ outbox' = <<>>
              /\ \A i \in 1..Len(log') : log'[i].what # "result"]_vars

\* C3 witness: a second result for a command answered before was just ignored
C3_SecondResultIgnored ==
    \E id \in 1..MaxCommands :
      /\ log = <<[level |-> "warn", what |-> "unknown-result", commandId |-> id]>>
      /\ outcomes[id] = <<"resolved">>

\* C4 (as the specification states it): whatever a deadline callback or the
\* sweep deletes is an entry that went sessionTimeout or longer without a refresh
C4_SteadySessionNeverEvicted ==
    \A r \in removed : r.origin \in {"deadline", "sweep"} => ~r.steady

\* C5 (as the specification states it): between two refreshes
\* markSessionOffline is started at most once for a session
C5_EvictedOnce ==
    \A i \in 1..Len(activeSessions) : activeSessions[i].evictions <= 1

\* C6: a registered session with now - lastPing > sessionTimeout does not
\* stay so forever: it leaves the registry (or is refreshed), whether or not
\* its liveness Timeout ever runs.
Stale(c) == MapHas(activeSessions, c) /\ MapGet(activeSessions, c).lastPing > sessionTimeout

C6_StaleEventuallyRemoved ==
    \A c \in Agent : Stale(c) ~> ~Stale(c)

\* C6 witness: the sweep has just deleted an entry while that entry's
\* liveness Timeout had not run
C6_SweptAway ==
    /\ \E r \in removed : r.origin = "sweep" /\ ~r.steady
    /\ activeSessions = <<>>
    /\ BagCardinality(tasks) = 0

\* C7: every command message goes out on the channel its access code was
\* last registered on.
C7_CommandsOnLatestChannel ==
    \A i \in Commands(outbox) :
      /\ MapHas(activeSessions, outbox[i].accessCode)
      /\ LET regs == MapGet(activeSessions, outbox[i].accessCode).regs
         IN outbox[i].ws = regs[Len(regs)]

\* C7 witness: a broadcast reached a code registered on c1 and then on c2, on c2
C7_SentOnSecondChannel ==
    /\ Cardinality(Commands(outbox)) = 2
    /\ \E i \in Commands(outbox) :
         /\ MapGet(activeSessions, outbox[i].accessCode).regs = <<"c1", "c2">>
         /\ outbox[i].ws = "c2"

\* the targets that pass `if (targetBrowser)`, and the key each one becomes
TruthyTargets == {v \in TargetTexts : Truthy(Coerce(v))}
TargetKey == [v \in TargetTexts |-> Coerce(v)]

C9_ExitCreatesNoPending ==
    [][\A ws \in Channels :
         MainAppMessage(ws, MsgExit) =>
           /\ \A k \in 1..Len(activeSessions) :
                \E i \in Commands(outbox') :
                  /\ outbox'[i].ws = activeSessions[k].ws
                  /\ outbox'[i].accessCode = activeSessions[k].accessCode
                  /\ outbox'[i].command = TxtExit
           /\ UNCHANGED <<pendingCommands, cmdTimers>>]_vars

\* C10 (as the specification states it): a command with a browser=<v> token
\* goes to at most one agent and the browser key is not among the
\* parameters sent
C10_TargetedNeverBroadcast ==
    [][\A ws \in Channels, v \in TargetTexts :
         MainAppMessage(ws, MsgClickTo(v)) =>
           /\ Cardinality(Commands(outbox')) <= 1
           /\ \A i \in Commands(outbox') : TxtBrowser \notin DOMAIN outbox'[i].params]_vars

\* C11 (as the specification states it): a recognized command with
\* browser=A, A registered, sends exactly one command message, on A's
\* channel, and creates one pending entry for A, whatever text A is
C11_TargetedReachesRegistered ==
    [][\A v \in Codes, ws \in Channels :
         MapHas(activeSessions, v) /\ MainAppMessage(ws, MsgClickTo(v)) =>
           /\ Cardinality(Commands(outbox')) = 1
           /\ \A i \in Commands(outbox') :
                /\ outbox'[i].ws = MapGet(activeSessions, v).ws
                /\ outbox'[i].accessCode = v
                /\ DOMAIN pendingCommands' = DOMAIN pendingCommands \cup {outbox'[i].commandId}
                /\ outbox'[i].commandId \notin DOMAIN pendingCommands
                /\ pendingCommands'[outbox'[i].commandId] = v]_vars

ExpectedParams(input) ==
    [key \in {input[n].key : n \in {n \in 1..Len(input) : input[n].keyed}} |->
       LET n == CHOOSE n \in 1..Len(input) : input[n].keyed /\ input[n].key = key
       IN input[n].value]

\* C13: a click command whose tokens are key=value tokens and tokens without
\* '=' is dispatched with exactly the parameters of its key=value tokens:
\* true/false as booleans, digit texts as numbers, other texts as strings;
\* a token without '=' adds nothing and does not stop the dispatch.
C13_ParametersCoerced ==
    [][\A input \in ParseInputs, ws \in Channels :
         activeSessions # <<>> /\ MainAppMessage(ws, MsgOf(input)) =>
           /\ Commands(outbox') # {}
           /\ \A i \in Commands(outbox') : outbox'[i].params = ExpectedParams(input)]_vars

\* C13 witness: a command went out with a boolean and a number among its parameters
C13_BooleanAndNumberSent ==
    \E i \in Commands(outbox) :
      /\ DOMAIN outbox[i].params = {TxtK, TxtJ}
      /\ outbox[i].params[TxtK] = Bool(TRUE)
      /\ outbox[i].params[TxtJ] = Num(7)

\* C14: a main: message whose command name is not a recognized command is
\* rejected: no command message goes out, the pending commands and their
\* timers stay as they were, and the sender alone gets an ERROR reply.
C14_UnknownCommandRejected ==
    [][\A ws \in Channels :
         MainAppMessage(ws, MsgBogus) =>
           /\ UNCHANGED <<pendingCommands, cmdTimers, nextCommandId>>
           /\ outbox' = <<[ws |-> ws, type |-> "ERROR", accessCode |-> TxtSystem,
                           code |-> "INVALID_FORMAT"]>>]_vars

\* C14 witness: an unknown command was answered with an ERROR while sessions
\* were registered and a command was pending
C14_RejectedWhilePending ==
    /\ Len(outbox) = 1 /\ outbox[1].type = "ERROR"
    /\ Len(log) = 1 /\ log[1].what = "unknown-command"
    /\ activeSessions # <<>>
    /\ DOMAIN pendingCommands # {}

\* C15: main:listBrowsers sends exactly one message, a list of every session
\* of the registry, back on the connection the command came in on, and leaves
\* the registry and the pending commands as they were; for every registry,
\* the empty one included.
C15_ListGoesToSender ==
    [][\A ws \in Channels :
         MainAppMessage(ws, MsgList) =>
           /\ UNCHANGED <<activeSessions, pendingCommands>>
           /\ Len(outbox') = 1
           /\ outbox'[1].type = "BROWSER_LIST"
           /\ outbox'[1].ws = ws
           /\ Len(outbox'[1].browsers) = Len(activeSessions)]_vars

\* C16: a ping for an access code that has no session finds nothing
\* (updateSessionPing returns false) and changes nothing: no session appears,
\* no lastPing moves, no deadline is armed or cancelled.
C16_PingForAbsentChangesNothing ==
    [][\A ws \in Channels, c \in Codes :
         ~MapHas(activeSessions, c) /\ handlePingPacket(ws, c) =>
           /\ ~updateSessionPingFound(SM, c)
           /\ UNCHANGED <<activeSessions, timers, sweeps>>]_vars

\* C16 witness: a ping for an absent code was answered while a deadline
\* armed earlier was still waiting
C16_AbsentPinged ==
    /\ Len(outbox) = 1 /\ outbox[1].type = "PONG"
    /\ ~MapHas(activeSessions, outbox[1].accessCode)
    /\ timers # EmptyBag

\* C17: eviction is idempotent.  A teardown for a code that has no session
\* changes neither the registry nor the timers; once removeSession has
\* cancelled the deadline and removed the entry, the rest of it (the part
\* after the store answers) changes neither of them again; and the teardown
\* is acknowledged with success either way.
C17_TeardownIdempotent ==
    [][/\ \A ws \in Channels, c \in Codes :
            ~MapHas(activeSessions, c) /\ handleExitPacket(ws, c) =>
              UNCHANGED <<activeSessions, timers>>
       /\ \A t \in BagToSet(tasks), ok \in BOOLEAN :
            ExitDone(t, ok) =>
              /\ UNCHANGED <<activeSessions, timers>>
              /\ outbox' = Send(t.ws, [ws |-> t.ws, type |-> "EXIT", success |-> TRUE])]_vars

\* the access code a message carries, "unknown" when it carries none
CodeOrUnknown(packet) ==
    IF packet.shape = "object" /\ packet.data.kind = "object" /\ packet.data.accessCode # <<>>
    THEN packet.data.accessCode ELSE TxtUnknown

\* C18: a message the handlers cannot read is answered, on the sender's
\* channel, with one ERROR reply that carries the message's access code, or
\* "unknown" when it has none; the channel stays open, and no session and no
\* pending command changes.
C18_ErrorNamesCodeOrUnknown ==
    [][\A ws \in Channels, packet \in MalformedPackets :
         BadPacket(ws, packet) =>
           /\ UNCHANGED <<activeSessions, timers, pendingCommands, cmdTimers, closed>>
           /\ Len(outbox') = 1
           /\ outbox'[1].type = "ERROR" /\ outbox'[1].ws = ws
           /\ outbox'[1].accessCode = CodeOrUnknown(packet)]_vars

\* C19: a failure of the store during registration or eviction is only
\* logged.  When a store call of a registration fails, the session stays
\* registered and the agent is still answered with the success
\* acknowledgement; when the store call of an eviction fails, no ERROR goes
\* out to anyone.
C19_StoreFailureOnlyLogged ==
    [][\A t \in BagToSet(tasks) :
         /\ InitFound(t, FALSE) \/ InitWritten(t, FALSE) =>
              /\ UNCHANGED activeSessions
              /\ outbox' = Send(t.ws, [ws |-> t.ws, type |-> "INIT",
                                       accessCode |-> t.accessCode, success |-> TRUE])
         /\ ExitDone(t, FALSE) \/ DeadlineDone(t, FALSE) =>
              \A i \in DOMAIN outbox' : outbox'[i].type # "ERROR"]_vars

\* C20: when the channel of a registered session closes, the session is
\* evicted by the close event itself: its entry is gone from the registry
\* and its deadline is cancelled.
C20_CloseEvicts ==
    [][\A ws \in Channels :
         Close(ws) =>
           \A i \in 1..Len(activeSessions) :
             activeSessions[i].ws = ws =>
               /\ ~MapHas(activeSessions', activeSessions[i].accessCode)
               /\ \A t \in BagToSet(timers') :
                    ~(t.owned /\ t.accessCode = activeSessions[i].accessCode)]_vars

\* C22: a raw text ping is answered with exactly one raw pong on its channel
\* and changes neither the registry, nor the deadlines, nor the pending
\* commands, whether or not a session was registered on the channel.
C22_RawPingOnePongNoEffect ==
    [][\A ws \in Channels, asString \in BOOLEAN :
         RawPing(ws, asString) =>
           /\ outbox' = <<[ws |-> ws, type |-> "pong"]>>
           /\ UNCHANGED <<activeSessions, timers, pendingCommands>>]_vars

\* the number of liveness deadlines armed for access code c
Armed(c) ==
    BagCardinality([t \in {u \in BagToSet(timers) : u.accessCode = c} |-> CopiesIn(t, timers)])

\* C23: in every state an access code has at most one armed liveness
\* deadline, a registered session (one no eviction has begun for) has exactly
\* one, and an access code with no session has none.
C23_OneDeadlinePerSession ==
    \A c \in Codes :
      /\ Armed(c) <= 1
      /\ MapHas(activeSessions, c) /\ MapGet(activeSessions, c).evictions = 0 => Armed(c) = 1
      /\ ~MapHas(activeSessions, c) => Armed(c) = 0

\* C24: an eviction begun for an earlier incarnation of an access code never
\* removes a session registered after it began.  A teardown removes the
\* entry before it awaits the store, so whatever is registered under the
\* code when the store answers was registered afterwards: the teardown's
\* completion removes nothing.
C24_LateDeleteRemovesNothing ==
    [][\A t \in BagToSet(tasks), ok \in BOOLEAN :
         ExitDone(t, ok) => removed' = {} /\ Len(activeSessions') = Len(activeSessions)]_vars

\* C25: when an eviction of X begins (X's deadline fires, or the sweep finds
\* X stale), X is out of the registry by the time the store call is awaited.
C25_AbsentWhileAwaiting ==
    [][/\ \A t \in BagToSet(timers) :
            t.owned /\ MapHas(activeSessions, t.accessCode) /\ DeadlineFire(t) =>
              ~MapHas(activeSessions', t.accessCode)
       /\ startPeriodicCheck /\ Len(sweeps') > Len(sweeps) =>
            ~MapHas(activeSessions', sweeps'[Len(sweeps')].accessCode)]_vars

\* C26: once a matching result has removed the pending entry of a command,
\* no expiry timer of that command is armed: every armed expiry timer
\* belongs to a pending command.
C26_ResolveCancelsTimer == cmdTimers \subseteq DOMAIN pendingCommands

\* C27: the messages of one connection are processed in arrival order: the
\* handling of a message of a connection begins only when every earlier
\* message of that connection has been handled to its end, reply included.
C27_OneMessageAtATime ==
    [][\A ws \in Channels, c \in Codes :
         (\E t \in BagToSet(tasks) : t.ws = ws) =>
           ~(\/ handleInitPacket(ws, c, UserAgentOf[ws])
             \/ handleExitPacket(ws, c)
             \/ handlePingPacket(ws, c))]_vars

\* C28: a teardown or a structured liveness message that names access code X
\* and arrives on a connection other than the channel X is registered on
\* leaves X's session as it was: present, on its channel, with its lastPing
\* and its deadline.
C28_ForeignMessageNoEffect ==
    [][\A ws \in Channels, c \in Codes :
         /\ MapHas(activeSessions, c)
         /\ MapGet(activeSessions, c).ws # ws
         /\ handleExitPacket(ws, c) \/ handlePingPacket(ws, c)
         => UNCHANGED <<activeSessions, timers>>]_vars

\* C29: a pending command dispatched to agent A is resolved only by a result
\* from A: a result that carries its id but names another access code, or
\* arrives on a connection other than A's channel, leaves the entry pending.
C29_ResultOnlyFromTarget ==
    [][\A ws \in Channels, id \in 1..MaxCommands, c \in Codes, success \in BOOLEAN :
         /\ id \in DOMAIN pendingCommands
         /\ \/ pendingCommands[id] # c
            \/ ~MapHas(activeSessions, c)
            \/ MapGet(activeSessions, c).ws # ws
         /\ handleCommandResult(ws, id, c, success)
         => UNCHANGED pendingCommands]_vars

\* C30: whenever no store call is in flight, the store marks an access code
\* online exactly when the registry holds a session for it.
C30_StoreMirrorsRegistry ==
    Quiet => \A c \in Codes : db[c] = "online" <=> MapHas(activeSessions, c)

\* C21: the value getAllSessions returns is a view of the registry at the
\* time of the call: what its holder iterates stays the set of sessions
\* registered at the call, whatever is registered afterwards.
C21_ViewIsPointInTime ==
    \A k \in 1..Len(broadcasts) :
      LET entries == Entries(broadcasts[k].sessions, activeSessions)
      IN {entries[i].accessCode : i \in 1..Len(entries)} = broadcasts[k].issued

====
